---- MODULE Spec2Model ----
(***************************************************************************)
(* ObservabilityConfig::from_env (core/lib/env_config/src/observability.rs) *)
(* as a state machine: the process environment, the four lookups of        *)
(* from_env in source order, its locals and the value it returns.          *)
(*                                                                         *)
(* Spec     : a sequential caller. from_env is called any number of times; *)
(*            between two calls the caller may vary the variables feeding  *)
(*            one field (set_var / remove_var); the last two calls are     *)
(*            kept for comparison.                                         *)
(* SpecConc : one call of from_env with another thread setting and         *)
(*            removing variables between the lookups.                      *)
(***************************************************************************)
EXTENDS Naturals, Sequences, FiniteSets, TLC

VARIABLES
    env,                \* the process environment: variable name -> OS value
    pc,                 \* position of from_env ("idle": no call in progress)
    sentry_url,         \* local of from_env (line 9)
    l1_network,         \* local of from_env (line 19)
    l2_network,         \* local of from_env (line 20)
    sentry_environment, \* local of from_env (line 18)
    log_format,         \* local of from_env (line 28)
    history,            \* the completed calls under comparison: <<[env, outcome]>>
    varied,             \* the field whose variables the caller changed since the last call
    read,               \* what each lookup of the current call found in the environment
    seen,               \* every environment that existed during the current call
    writes              \* writes by the other thread during the current call

vars == <<env, pc, sentry_url, l1_network, l2_network, sentry_environment,
          log_format, history, varied, read, seen, writes>>

locals == <<sentry_url, l1_network, l2_network, sentry_environment, log_format>>

-----------------------------------------------------------------------------
(* Bounds *)

\* Writes the other thread makes during one call (SpecConc).
MaxWrites == 2

-----------------------------------------------------------------------------
(* The environment *)

Names == {"MISC_SENTRY_URL", "CHAIN_ETH_NETWORK", "CHAIN_ETH_ZKSYNC_NETWORK",
          "MISC_LOG_FORMAT"}

\* An OS value of a variable: absent, a valid-Unicode string, or bytes that
\* are not valid Unicode (one representative; its bytes are never looked at).
Absent == [tag |-> "Absent", s |-> ""]
Unicode(str) == [tag |-> "Unicode", s |-> str]
NotUnicode == [tag |-> "NotUnicode", s |-> ""]

\* The strings each variable is given.
Strings(name) ==
    CASE name = "MISC_SENTRY_URL" -> {"", "unset", "UNSET", "https://example.com/dsn"}
      [] name = "CHAIN_ETH_NETWORK" -> {"", "mainnet"}
      [] name = "CHAIN_ETH_ZKSYNC_NETWORK" -> {"", "zksync-mainnet"}
      [] name = "MISC_LOG_FORMAT" -> {"", "plain", "json", "JSON", "xml"}

OsValues(name) == {Absent, NotUnicode} \cup {Unicode(str) : str \in Strings(name)}

Envs == {e \in [Names -> UNION {OsValues(n) : n \in Names}] :
            \A n \in Names : e[n] \in OsValues(n)}

\* The strings the other thread writes (SpecConc), and the environments a
\* concurrent call starts from.
ConcStrings(name) ==
    CASE name = "MISC_SENTRY_URL" -> {"unset", "https://example.com/dsn"}
      [] name = "CHAIN_ETH_NETWORK" -> {"mainnet"}
      [] name = "CHAIN_ETH_ZKSYNC_NETWORK" -> {"zksync-mainnet"}
      [] name = "MISC_LOG_FORMAT" -> {"json", "xml"}

ConcEnvs == {e \in Envs :
                \A n \in Names : e[n] = Absent \/ (e[n].tag = "Unicode" /\ e[n].s \in ConcStrings(n))}

\* The variables feeding each field of ObservabilityConfig.
Fields == {"sentry_url", "sentry_environment", "log_format"}

Feeds(field) ==
    CASE field = "sentry_url" -> {"MISC_SENTRY_URL"}
      [] field = "sentry_environment" -> {"CHAIN_ETH_NETWORK", "CHAIN_ETH_ZKSYNC_NETWORK"}
      [] field = "log_format" -> {"MISC_LOG_FORMAT"}

FieldOf(name) == CHOOSE f \in Fields : name \in Feeds(f)

-----------------------------------------------------------------------------
(* Values of the program *)

\* Option<String>
None == [tag |-> "None", s |-> ""]
Some(str) == [tag |-> "Some", s |-> str]

\* Result<String, VarError> of std::env::var
VarOk(str) == [tag |-> "Ok", s |-> str]
VarErr(kind) == [tag |-> "Err", s |-> kind]

\* A local that is not yet bound.
Unbound == [tag |-> "Unbound", s |-> ""]

\* anyhow::Result<ObservabilityConfig>
OkConfig(u, e, f) ==
    [tag |-> "Ok", config |-> [sentry_url |-> u, sentry_environment |-> e, log_format |-> f]]
Error(msg) == [tag |-> "Err", msg |-> msg]

NoRead == [n \in Names |-> Unbound]

-----------------------------------------------------------------------------
(* The pure steps of from_env *)

\* Faulty variant: var answers only during the first call of the process.
varFirstCallOnly(e, name) ==
    IF history # <<>> \/ e[name].tag # "Unicode"
    THEN VarErr("NotPresent")
    ELSE VarOk(e[name].s)

\* Faulty variant: var converts lossily: bytes that are not Unicode become U+FFFD.
varLossy(e, name) ==
    CASE e[name].tag = "Unicode" -> VarOk(e[name].s)
      [] e[name].tag = "Absent" -> VarErr("NotPresent")
      [] e[name].tag = "NotUnicode" -> VarOk("?")

\* std::env::var(name): Ok(value) for a present valid-Unicode value,
\* Err(NotPresent) for an absent one, Err(NotUnicode) otherwise.
var(e, name) ==
    CASE e[name].tag = "Unicode" -> VarOk(e[name].s)
      [] e[name].tag = "Absent" -> VarErr("NotPresent")
      [] e[name].tag = "NotUnicode" -> VarErr("NotUnicode")

\* Result::ok(): the error, whichever it is, is dropped.
ok(r) == IF r.tag = "Ok" THEN Some(r.s) ELSE None

\* Faulty variant: the sentinel is compared after trimming: "" disables too.
SentryUrlOfEmptyUnset(r) ==
    IF r.tag = "Ok"
    THEN IF r.s = "unset" \/ r.s = "" THEN None ELSE Some(r.s)
    ELSE None

\* Faulty variant: the "unset" sentinel is forgotten.
SentryUrlOfNoSentinel(r) == IF r.tag = "Ok" THEN Some(r.s) ELSE None

\* Lines 9-17: if let Ok(sentry_url) = var(..) { if sentry_url == "unset" .. }
SentryUrlOf(r) ==
    IF r.tag = "Ok"
    THEN IF r.s = "unset" THEN None ELSE Some(r.s)
    ELSE None

\* Faulty variant: the separator has no spaces.
formatHyphen(l1, l2) == l1 \o "-" \o l2

\* Line 23: format!("{} - {}", l1_network, l2_network)
format(l1, l2) == l1 \o " - " \o l2

\* Faulty variant: a lone l1 network is used as the label.
SentryEnvironmentOfPartial(l1, l2) ==
    CASE l1.tag = "Some" /\ l2.tag = "Some" -> Some(format(l1.s, l2.s))
      [] l1.tag = "Some" /\ l2.tag # "Some" -> Some(l1.s)
      [] OTHER -> None

\* Faulty variant: the label is built only when error reporting is enabled.
SentryEnvironmentOfIfSentry(l1, l2) ==
    IF l1.tag = "Some" /\ l2.tag = "Some" /\ sentry_url # None
    THEN Some(format(l1.s, l2.s))
    ELSE None

\* Lines 21-26: match (l1_network, l2_network)
SentryEnvironmentOf(l1, l2) ==
    IF l1.tag = "Some" /\ l2.tag = "Some"
    THEN Some(format(l1.s, l2.s))
    ELSE None

\* Faulty variant: the empty string passes the check.
UnexpectedButEmpty(str) == str # "plain" /\ str # "json" /\ str # ""

\* Line 29: log_format != "plain" && log_format != "json"
Unexpected(str) == str # "plain" /\ str # "json"

\* Faulty variant: the default of an absent MISC_LOG_FORMAT is "json".
LogFormatOfDefaultJson(r) == IF r.tag = "Ok" THEN r.s ELSE "json"

\* Lines 28-35 without the bail: the value itself, or "plain" when the lookup failed
LogFormatOf(r) == IF r.tag = "Ok" THEN r.s ELSE "plain"

\* Faulty variant: the message leaves the value out.
BailMessageNoValue(str) == "MISC_LOG_FORMAT has an unexpected value"

\* Line 30: the message of anyhow::bail!
BailMessage(str) == "MISC_LOG_FORMAT has an unexpected value " \o str

-----------------------------------------------------------------------------
(* Initial states *)

InitCall ==
    /\ pc = "idle"
    /\ sentry_url = Unbound
    /\ l1_network = Unbound
    /\ l2_network = Unbound
    /\ sentry_environment = Unbound
    /\ log_format = Unbound
    /\ history = <<>>
    /\ varied = "none"
    /\ read = NoRead
    /\ writes = 0

Init ==
    /\ env \in Envs
    /\ seen = {env}
    /\ InitCall

InitConc ==
    /\ env \in ConcEnvs
    /\ seen = {env}
    /\ InitCall

-----------------------------------------------------------------------------
(* from_env, one action per statement *)

\* Line 6: entry. The locals are fresh in every call.
Call ==
    /\ pc = "idle"
    /\ pc' = "sentry_url"
    /\ sentry_url' = Unbound
    /\ l1_network' = Unbound
    /\ l2_network' = Unbound
    /\ sentry_environment' = Unbound
    /\ log_format' = Unbound
    /\ varied' = "none"
    /\ read' = NoRead
    /\ seen' = {env}
    /\ writes' = 0
    /\ UNCHANGED <<env, history>>

\* Lines 9-17
LookupSentryUrl ==
    /\ pc = "sentry_url"
    /\ sentry_url' = SentryUrlOf(var(env, "MISC_SENTRY_URL"))
    /\ read' = [read EXCEPT !["MISC_SENTRY_URL"] = env["MISC_SENTRY_URL"]]
    /\ pc' = "l1_network"
    /\ UNCHANGED <<env, l1_network, l2_network, sentry_environment, log_format,
                   history, varied, seen, writes>>

\* Line 19
LookupL1Network ==
    /\ pc = "l1_network"
    /\ l1_network' = ok(var(env, "CHAIN_ETH_NETWORK"))
    /\ read' = [read EXCEPT !["CHAIN_ETH_NETWORK"] = env["CHAIN_ETH_NETWORK"]]
    /\ pc' = "l2_network"
    /\ UNCHANGED <<env, sentry_url, l2_network, sentry_environment, log_format,
                   history, varied, seen, writes>>

\* Line 20
LookupL2Network ==
    /\ pc = "l2_network"
    /\ l2_network' = ok(var(env, "CHAIN_ETH_ZKSYNC_NETWORK"))
    /\ read' = [read EXCEPT !["CHAIN_ETH_ZKSYNC_NETWORK"] = env["CHAIN_ETH_ZKSYNC_NETWORK"]]
    /\ pc' = "match"
    /\ UNCHANGED <<env, sentry_url, l1_network, sentry_environment, log_format,
                   history, varied, seen, writes>>

\* Lines 21-27
MatchNetworks ==
    /\ pc = "match"
    /\ sentry_environment' = SentryEnvironmentOf(l1_network, l2_network)
    /\ pc' = "log_format"
    /\ UNCHANGED <<env, sentry_url, l1_network, l2_network, log_format,
                   history, varied, read, seen, writes>>

\* The record of a completed call.
Completed(outcome) ==
    LET rec == [env |-> env, outcome |-> outcome]
    IN  IF Len(history) = 2 THEN <<history[2], rec>> ELSE Append(history, rec)

\* Lines 28-35, the value is absent, not Unicode, "plain" or "json"
LookupLogFormat ==
    /\ pc = "log_format"
    /\ LET r == var(env, "MISC_LOG_FORMAT")
       IN  /\ ~(r.tag = "Ok" /\ Unexpected(r.s))
           /\ log_format' = LogFormatOf(r)
    /\ read' = [read EXCEPT !["MISC_LOG_FORMAT"] = env["MISC_LOG_FORMAT"]]
    /\ pc' = "return"
    /\ UNCHANGED <<env, sentry_url, l1_network, l2_network, sentry_environment,
                   history, varied, seen, writes>>

\* Lines 28-31, anyhow::bail!: from_env returns the error at once
BailLogFormat ==
    /\ pc = "log_format"
    /\ LET r == var(env, "MISC_LOG_FORMAT")
       IN  /\ r.tag = "Ok" /\ Unexpected(r.s)
           /\ history' = Completed(Error(BailMessage(r.s)))
    /\ read' = [read EXCEPT !["MISC_LOG_FORMAT"] = env["MISC_LOG_FORMAT"]]
    /\ pc' = "idle"
    /\ UNCHANGED <<env, locals, varied, seen, writes>>

\* Lines 37-41
ReturnOk ==
    /\ pc = "return"
    /\ history' = Completed(OkConfig(sentry_url, sentry_environment, log_format))
    /\ pc' = "idle"
    /\ UNCHANGED <<env, locals, varied, read, seen, writes>>

from_env ==
    \/ LookupSentryUrl
    \/ LookupL1Network
    \/ LookupL2Network
    \/ MatchNetworks
    \/ LookupLogFormat
    \/ BailLogFormat
    \/ ReturnOk

-----------------------------------------------------------------------------
(* The rest of the process *)

\* The sequential caller changes a variable between two calls. It varies the
\* variables of one field at a time, and drops the older of two compared
\* calls when it starts to vary.
CallerWrite(name, v) ==
    /\ pc = "idle"
    /\ varied \in {"none", FieldOf(name)}
    /\ env[name] # v
    /\ env' = [env EXCEPT ![name] = v]
    /\ varied' = FieldOf(name)
    /\ history' = IF Len(history) = 2 THEN Tail(history) ELSE history
    /\ seen' = {env'}
    /\ UNCHANGED <<pc, locals, read, writes>>

\* std::env::set_var between calls
SetVar == \E name \in Names : \E v \in OsValues(name) \ {Absent} : CallerWrite(name, v)

\* std::env::remove_var between calls
RemoveVar == \E name \in Names : CallerWrite(name, Absent)

\* Another thread changes a variable while from_env runs.
ThreadWrite(name, v) ==
    /\ pc \notin {"idle"}
    /\ writes < MaxWrites
    /\ env[name] # v
    /\ env' = [env EXCEPT ![name] = v]
    /\ seen' = seen \cup {env'}
    /\ writes' = writes + 1
    /\ UNCHANGED <<pc, locals, history, varied, read>>

ConcSetVar == \E name \in Names : \E str \in ConcStrings(name) : ThreadWrite(name, Unicode(str))

ConcRemoveVar == \E name \in Names : ThreadWrite(name, Absent)

\* The only call of the concurrent run.
ConcCall == history = <<>> /\ Call

-----------------------------------------------------------------------------
(* Specifications *)

Next == Call \/ from_env \/ SetVar \/ RemoveVar

Spec == Init /\ [][Next]_vars

NextConc == ConcCall \/ from_env \/ ConcSetVar \/ ConcRemoveVar

SpecConc == InitConc /\ [][NextConc]_vars

-----------------------------------------------------------------------------
(* Properties *)

URL == "MISC_SENTRY_URL"
L1 == "CHAIN_ETH_NETWORK"
L2 == "CHAIN_ETH_ZKSYNC_NETWORK"
LOG == "MISC_LOG_FORMAT"

\* The completed calls under comparison.
Calls == {history[i] : i \in 1..Len(history)}

\* A variable is present with a string. A value that is not valid Unicode is
\* no string: C1-C4 are stated over absent and string values, and hold as
\* written below with non-Unicode values counted as not present (C10).
Present(v) == v.tag = "Unicode"

\* MISC_LOG_FORMAT is present with a string other than "plain" and "json".
InvalidLog(e) == Present(e[LOG]) /\ e[LOG].s \notin {"plain", "json"}

\* C1: from_env fails if and only if MISC_LOG_FORMAT is present with a
\* string other than "plain" and "json"; in every other environment it
\* returns Ok.
C1_FailsIffInvalidLogFormat ==
    \A c \in Calls :
        /\ c.outcome.tag \in {"Ok", "Err"}
        /\ c.outcome.tag = "Err" <=> InvalidLog(c.env)

\* A call that failed on the empty string with the three other variables
\* usable, compared with a call that succeeded with all four absent.
C1_Witness ==
    /\ Len(history) = 2
    /\ \A n \in Names : history[1].env[n] = Absent
    /\ history[1].outcome.tag = "Ok"
    /\ history[2].env[LOG] = Unicode("")
    /\ history[2].outcome.tag = "Err"

\* C2: every returned config has log_format "plain" or "json": "plain" when
\* MISC_LOG_FORMAT is absent, the value verbatim when it is "plain" or "json".
C2_LogFormatPlainOrJson ==
    \A c \in Calls :
        c.outcome.tag = "Ok" =>
            /\ c.outcome.config.log_format \in {"plain", "json"}
            /\ c.env[LOG] = Absent => c.outcome.config.log_format = "plain"
            /\ Present(c.env[LOG]) => c.outcome.config.log_format = c.env[LOG].s

C2_Witness ==
    /\ Len(history) = 2
    /\ history[1].env[LOG] = Absent
    /\ history[1].outcome.tag = "Ok"
    /\ history[1].outcome.config.log_format = "plain"
    /\ history[2].env[LOG] = Unicode("json")
    /\ history[2].outcome.tag = "Ok"
    /\ history[2].outcome.config.log_format = "json"

\* C3: in every returned config sentry_environment is Some(l1 ++ " - " ++ l2)
\* exactly when CHAIN_ETH_NETWORK and CHAIN_ETH_ZKSYNC_NETWORK are both
\* present, and None when either or both are absent.
C3_SentryEnvironmentBothOrNone ==
    \A c \in Calls :
        c.outcome.tag = "Ok" =>
            IF Present(c.env[L1]) /\ Present(c.env[L2])
            THEN c.outcome.config.sentry_environment
                     = Some(c.env[L1].s \o " - " \o c.env[L2].s)
            ELSE c.outcome.config.sentry_environment = None

\* A lone l1 network gave no label; with the l2 network added the label is
\* "mainnet - zksync-mainnet".
C3_Witness ==
    /\ Len(history) = 2
    /\ history[1].env[L1] = Unicode("mainnet")
    /\ history[1].env[L2] = Absent
    /\ history[1].outcome.tag = "Ok"
    /\ history[1].outcome.config.sentry_environment = None
    /\ history[2].env[L1] = Unicode("mainnet")
    /\ history[2].env[L2] = Unicode("zksync-mainnet")
    /\ history[2].outcome.tag = "Ok"
    /\ history[2].outcome.config.sentry_environment = Some("mainnet - zksync-mainnet")

\* C4: in every returned config sentry_url is None exactly when
\* MISC_SENTRY_URL is absent or equal to "unset", and otherwise Some(v) with v
\* the value unchanged ("" and "UNSET" included).
C4_SentryUrlSentinel ==
    \A c \in Calls :
        (c.outcome.tag = "Ok" /\ c.env[URL].tag # "NotUnicode") =>
            /\ c.outcome.config.sentry_url = None
                   <=> (c.env[URL] = Absent \/ c.env[URL] = Unicode("unset"))
            /\ c.outcome.config.sentry_url # None
                   => c.outcome.config.sentry_url = Some(c.env[URL].s)

C4_Witness ==
    /\ Len(history) = 2
    /\ history[1].env[URL] = Unicode("UNSET")
    /\ history[1].outcome.tag = "Ok"
    /\ history[1].outcome.config.sentry_url = Some("UNSET")
    /\ history[2].env[URL] = Unicode("")
    /\ history[2].outcome.tag = "Ok"
    /\ history[2].outcome.config.sentry_url = Some("")

\* C5 as stated: with MISC_SENTRY_URL = "unset" from_env yields a result whose
\* sentry_url is None, whatever the other three variables hold.
C5_Original ==
    \A c \in Calls :
        c.env[URL] = Unicode("unset") =>
            c.outcome.tag = "Ok" /\ c.outcome.config.sentry_url = None

\* C5 amended: with MISC_SENTRY_URL = "unset", from_env returns a config with
\* sentry_url None whatever the two network variables hold and whenever
\* MISC_LOG_FORMAT is not an unexpected string; when it is, from_env returns
\* the error and no sentry_url at all.
C5_UnsetYieldsNoneOrError ==
    \A c \in Calls :
        c.env[URL] = Unicode("unset") =>
            IF InvalidLog(c.env)
            THEN c.outcome.tag = "Err"
            ELSE c.outcome.tag = "Ok" /\ c.outcome.config.sentry_url = None

C5_Witness ==
    /\ Len(history) = 2
    /\ history[1].env[URL] = Unicode("unset")
    /\ history[1].env[L1] = Unicode("mainnet")
    /\ history[1].env[L2] = Unicode("zksync-mainnet")
    /\ history[1].env[LOG] = Unicode("json")
    /\ history[1].outcome.tag = "Ok"
    /\ history[1].outcome.config.sentry_url = None
    /\ history[2].env[URL] = Unicode("unset")
    /\ history[2].env[LOG] = Unicode("xml")
    /\ history[2].outcome.tag = "Err"

\* Two environments differ, and only in the variables feeding field f.
DifferOnlyIn(e1, e2, f) ==
    /\ e1 # e2
    /\ \A n \in Names \ Feeds(f) : e1[n] = e2[n]

\* Two outcomes agree on field g: two configs with the same g, or two errors.
Agree(o1, o2, g) ==
    IF o1.tag = "Ok" /\ o2.tag = "Ok"
    THEN o1.config[g] = o2.config[g]
    ELSE o1.tag = o2.tag

\* C6 as stated: two environments that differ only in the variables feeding
\* one field give results that agree on the other two fields, for each of
\* the three fields.
C6_Original ==
    Len(history) = 2 =>
        \A f \in Fields :
            DifferOnlyIn(history[1].env, history[2].env, f) =>
                \A g \in Fields \ {f} :
                    Agree(history[1].outcome, history[2].outcome, g)

\* C6 amended: two environments that differ only in MISC_SENTRY_URL, or only
\* in the two network variables, give two configs that agree on the other
\* two fields or the same error; two environments that differ only in
\* MISC_LOG_FORMAT give results that agree on sentry_url and
\* sentry_environment whenever both are configs (an unexpected value on one
\* side makes that side an error, which carries no field).
C6_FieldIndependence ==
    Len(history) = 2 =>
        LET o1 == history[1].outcome
            o2 == history[2].outcome
        IN  \A f \in Fields :
                DifferOnlyIn(history[1].env, history[2].env, f) =>
                    /\ f # "log_format" => o1.tag = o2.tag
                    /\ (f # "log_format" /\ o1.tag = "Err") => o1 = o2
                    /\ (o1.tag = "Ok" /\ o2.tag = "Ok") =>
                           \A g \in Fields \ {f} : o1.config[g] = o2.config[g]

\* Both calls returned a config, the first with error reporting disabled and
\* a label, the second with only MISC_SENTRY_URL changed.
C6_Witness ==
    /\ Len(history) = 2
    /\ DifferOnlyIn(history[1].env, history[2].env, "sentry_url")
    /\ history[1].outcome.tag = "Ok"
    /\ history[2].outcome.tag = "Ok"
    /\ history[1].outcome.config.sentry_url = None
    /\ history[2].outcome.config.sentry_url # None
    /\ history[2].outcome.config.sentry_environment = Some("mainnet - zksync-mainnet")
    /\ history[2].outcome.config.log_format = "json"

\* C7: when MISC_LOG_FORMAT is present with a string v other than "plain"
\* and "json", from_env returns the error "MISC_LOG_FORMAT has an unexpected
\* value " followed by v and no config, whatever the other variables hold.
C7_BailCarriesValue ==
    \A c \in Calls :
        InvalidLog(c.env) =>
            /\ c.outcome.tag = "Err"
            /\ DOMAIN c.outcome = {"tag", "msg"}
            /\ c.outcome.msg = "MISC_LOG_FORMAT has an unexpected value " \o c.env[LOG].s

C7_Witness ==
    \E c \in Calls :
        /\ c.env[URL] = Unicode("https://example.com/dsn")
        /\ c.env[L1] = Unicode("mainnet")
        /\ c.env[L2] = Unicode("zksync-mainnet")
        /\ c.env[LOG] = Unicode("JSON")
        /\ c.outcome = Error("MISC_LOG_FORMAT has an unexpected value JSON")

\* C8: two calls in sequence with the same environment have equal outcomes.
C8_SameEnvSameOutcome ==
    (Len(history) = 2 /\ history[1].env = history[2].env) =>
        history[1].outcome = history[2].outcome

\* Two calls in an unchanged environment where every variable is present.
C8_Witness ==
    /\ Len(history) = 2
    /\ varied = "none"
    /\ history[1].env = history[2].env
    /\ \A n \in Names : Present(history[2].env[n])
    /\ history[2].outcome.tag = "Ok"
    /\ history[2].outcome.config.sentry_url # None
    /\ history[2].outcome.config.sentry_environment # None

\* The derivation rules of the three fields, applied to one environment e.
DeriveSentryUrl(e) ==
    IF Present(e[URL]) /\ e[URL].s # "unset" THEN Some(e[URL].s) ELSE None

DeriveSentryEnvironment(e) ==
    IF Present(e[L1]) /\ Present(e[L2])
    THEN Some(e[L1].s \o " - " \o e[L2].s)
    ELSE None

DeriveLogFormat(e) == IF Present(e[LOG]) THEN e[LOG].s ELSE "plain"

Derive(e) ==
    IF InvalidLog(e)
    THEN Error("MISC_LOG_FORMAT has an unexpected value " \o e[LOG].s)
    ELSE OkConfig(DeriveSentryUrl(e), DeriveSentryEnvironment(e), DeriveLogFormat(e))

\* The one call of the concurrent run has returned.
Returned == pc = "idle" /\ history # <<>>

\* C9 as stated: whatever another thread writes between the lookups, the
\* result is that of the rules applied to one environment that existed
\* during the call.
C9_Original ==
    Returned => \E e \in seen : history[1].outcome = Derive(e)

\* C9 amended: the four lookups run in the order MISC_SENTRY_URL,
\* CHAIN_ETH_NETWORK, CHAIN_ETH_ZKSYNC_NETWORK, MISC_LOG_FORMAT without a
\* lock, and the result is that of the rules applied to the four values the
\* lookups found, each one the value its variable had in some environment
\* that existed during the call; it is the result of a single snapshot when
\* no other thread sets or removes a variable during the call.
C9_PerLookupValues ==
    /\ read[L1] # Unbound => read[URL] # Unbound
    /\ read[L2] # Unbound => read[L1] # Unbound
    /\ read[LOG] # Unbound => read[L2] # Unbound
    /\ Returned =>
           /\ history[1].outcome = Derive(read)
           /\ \A n \in Names : \E e \in seen : read[n] = e[n]
           /\ writes = 0 => history[1].outcome = Derive(env)

\* A call interleaved with writes whose result mixes values of two
\* environments and matches no environment that existed during it.
C9_Witness ==
    /\ Returned
    /\ writes > 0
    /\ history[1].outcome = Derive(read)
    /\ \A e \in seen : history[1].outcome # Derive(e)

\* e with every value that is not valid Unicode removed.
WithoutNotUnicode(e) == [n \in Names |-> IF e[n] = NotUnicode THEN Absent ELSE e[n]]

\* C10: a variable whose value is not valid Unicode is treated as absent, for
\* all four variables: a non-Unicode MISC_LOG_FORMAT gives Ok with log_format
\* "plain", a non-Unicode MISC_SENTRY_URL gives sentry_url None, a non-Unicode
\* network variable gives sentry_environment None; and two environments that
\* are equal once non-Unicode values are removed give equal outcomes.
C10_NotUnicodeAsAbsent ==
    /\ \A c \in Calls :
           /\ c.env[LOG] = NotUnicode =>
                  c.outcome.tag = "Ok" /\ c.outcome.config.log_format = "plain"
           /\ (c.env[URL] = NotUnicode /\ c.outcome.tag = "Ok") =>
                  c.outcome.config.sentry_url = None
           /\ ((c.env[L1] = NotUnicode \/ c.env[L2] = NotUnicode) /\ c.outcome.tag = "Ok") =>
                  c.outcome.config.sentry_environment = None
    /\ (Len(history) = 2
          /\ WithoutNotUnicode(history[1].env) = WithoutNotUnicode(history[2].env)) =>
           history[1].outcome = history[2].outcome

\* All four variables hold non-Unicode values in the first call; the second
\* call has MISC_LOG_FORMAT removed and returns the same config.
C10_Witness ==
    /\ Len(history) = 2
    /\ \A n \in Names : history[1].env[n] = NotUnicode
    /\ history[2].env = [history[1].env EXCEPT ![LOG] = Absent]
    /\ history[1].outcome = OkConfig(None, None, "plain")
    /\ history[2].outcome = OkConfig(None, None, "plain")

====
